---- MODULE Spec2Model ----
\* Model of bracket-fluent (src/src/lib.rs): the `fluent` helper of the bracket
\* template engine and its transient `fluentparam` local helper.
\*
\* Strings are sequences of one-character strings, so that escaping, language
\* parsing and whitespace stripping are computed character by character.
\* A render is one action: the helper calls are recursive operators over the
\* template tree that thread the render state (local helpers, writer stack,
\* shared parameter maps, backend calls) exactly in the order of the code.
EXTENDS Integers, Sequences, FiniteSets, TLC

VARIABLES
    helper,     \* the FluentHelper: [escape]
    trim,       \* the "trim" option of the specification (FluentHelper has no such field)
    data,       \* root template data: the `lang` entry
    missing,    \* what the host does with a block whose helper is not registered
    tpl,        \* the template: a sequence of nodes
    pc,         \* "new" | "configured" | "done"
    rc          \* the Render state left by the render

vars == <<helper, trim, data, missing, tpl, pc, rc>>

----------------------------------------------------------------------------
\* Bounds of the model

MaxArgs == 2          \* positional arguments of a call
MaxHash == 2          \* hash arguments of a call
MaxChildren == 2      \* direct children of a top-level fluent block

----------------------------------------------------------------------------
\* Strings

FLUENT_PARAM == "fluentparam"

Letters == {"a", "b", "e", "g", "h", "i", "n", "o", "t", "S", "U", "w", "x", "y", "l", "m"}
Digits == {"1", "2", "3"}
Whitespace == {" ", "\n"}

RECURSIVE Concat(_)
Concat(ss) == IF ss = <<>> THEN <<>> ELSE Head(ss) \o Concat(Tail(ss))

\* str::trim
RECURSIVE TrimStart(_)
TrimStart(s) ==
    IF s # <<>> /\ Head(s) \in Whitespace THEN TrimStart(Tail(s)) ELSE s

RECURSIVE TrimEnd(_)
TrimEnd(s) ==
    IF s # <<>> /\ s[Len(s)] \in Whitespace
    THEN TrimEnd(SubSeq(s, 1, Len(s) - 1)) ELSE s

Strip(s) == TrimEnd(TrimStart(s))

\* the registry's default escape function (HTML)
EscapeChar(c) ==
    CASE c = "<" -> <<"&", "l", "t", ";">>
      [] c = ">" -> <<"&", "g", "t", ";">>
      [] c = "&" -> <<"&", "a", "m", "p", ";">>
      [] OTHER -> <<c>>

RECURSIVE Escape(_)
Escape(s) == IF s = <<>> THEN <<>> ELSE EscapeChar(Head(s)) \o Escape(Tail(s))

----------------------------------------------------------------------------
\* JSON values (serde_json::Value) and Fluent values

JString(s) == [t |-> "String", s |-> s]
\* a JSON number: kind PosInt (u64), NegInt (i64) or Float (f64); the magnitude is
\* hi * 2^27 + lo, below 2^54
JNumber(kind, hi, lo) == [t |-> "Number", kind |-> kind, hi |-> hi, lo |-> lo]
JBool(b) == [t |-> "Bool", b |-> b]
JNull == [t |-> "Null"]
JArray == [t |-> "Array"]
JObject == [t |-> "Object"]

Base == 2 ^ 27
MantissaHi == 2 ^ 26      \* hi of 2^53: above it an f64 holds even integers only

\* Number::as_f64: u64/i64 are cast `as f64` (round to nearest, ties to even),
\* an f64 is returned as it is
RoundMagnitude(hi, lo) ==
    IF hi < MantissaHi \/ lo % 2 = 0 THEN [hi |-> hi, lo |-> lo]
    ELSE IF lo % 4 = 1 THEN [hi |-> hi, lo |-> lo - 1]
    ELSE IF lo + 1 = Base THEN [hi |-> hi + 1, lo |-> 0]
    ELSE [hi |-> hi, lo |-> lo + 1]

AsF64(n) ==
    LET m == IF n.kind = "Float" THEN [hi |-> n.hi, lo |-> n.lo]
             ELSE RoundMagnitude(n.hi, n.lo)
    IN [neg |-> n.kind = "NegInt", hi |-> m.hi, lo |-> m.lo]

FluentNumber(f) == [t |-> "Number", neg |-> f.neg, hi |-> f.hi, lo |-> f.lo]
FluentString(s) == [t |-> "String", s |-> s]

\* the mathematical value of a JSON number / of a Fluent number, as <<sign, hi, lo>>
JValueOf(n) == <<n.kind = "NegInt", n.hi, n.lo>>
FValueOf(v) == <<v.neg, v.hi, v.lo>>

----------------------------------------------------------------------------
\* LanguageIdentifier::from_str

RECURSIVE SplitTag(_, _)
SplitTag(s, cur) ==
    IF s = <<>> THEN <<cur>>
    ELSE IF Head(s) \in {"-", "_"} THEN <<cur>> \o SplitTag(Tail(s), <<>>)
    ELSE SplitTag(Tail(s), Append(cur, Head(s)))

AllIn(s, set) == \A i \in 1..Len(s) : s[i] \in set

IsLanguage(s) == Len(s) \in {2, 3, 5, 6, 7, 8} /\ AllIn(s, Letters)
IsScript(s) == Len(s) = 4 /\ AllIn(s, Letters)
IsRegion(s) == (Len(s) = 2 /\ AllIn(s, Letters)) \/ (Len(s) = 3 /\ AllIn(s, Digits))
IsVariant(s) ==
    \/ Len(s) \in 5..8 /\ AllIn(s, Letters \cup Digits)
    \/ Len(s) = 4 /\ s[1] \in Digits /\ AllIn(s, Letters \cup Digits)

\* pos: 1 = a script may follow, 2 = a region may follow, 3 = variants only
RECURSIVE ParseSubtags(_, _, _)
ParseSubtags(tags, pos, id) ==
    IF tags = <<>> THEN [ok |-> TRUE, id |-> id]
    ELSE LET s == Head(tags) IN
         IF pos = 1 /\ IsScript(s)
         THEN ParseSubtags(Tail(tags), 2, [id EXCEPT !.script = s])
         ELSE IF pos <= 2 /\ IsRegion(s)
         THEN ParseSubtags(Tail(tags), 3, [id EXCEPT !.region = s])
         ELSE IF IsVariant(s)
         THEN ParseSubtags(Tail(tags), 3, [id EXCEPT !.variants = Append(@, s)])
         ELSE [ok |-> FALSE, id |-> id]

NoLangId == [language |-> <<>>, script |-> <<>>, region |-> <<>>, variants |-> <<>>]

ParseLang(s) ==
    LET tags == SplitTag(s, <<>>) IN
    IF ~IsLanguage(Head(tags)) THEN [ok |-> FALSE, id |-> NoLangId]
    ELSE ParseSubtags(Tail(tags), 1, [NoLangId EXCEPT !.language = Head(tags)])

----------------------------------------------------------------------------
\* Template nodes (bracket::parser::ast::Node) and the render state

TextNode(t) ==
    [type |-> "Text", name |-> "", args |-> <<>>, hash |-> <<>>, body |-> <<>>, text |-> t]
\* {{name args hash}}
Statement(name, args, hash) ==
    [type |-> "Statement", name |-> name, args |-> args, hash |-> hash,
     body |-> <<>>, text |-> <<>>]
\* {{#name args hash}} body {{/name}}
Block(name, args, hash, body) ==
    [type |-> "Block", name |-> name, args |-> args, hash |-> hash,
     body |-> body, text |-> <<>>]

NoError == ""

\* A fresh Render: no local helper, one output writer, no shared map allocated.
\* calls, writes, stored and returned record what the helpers did, in order.
NewRender ==
    [local |-> <<>>, maps |-> <<>>, writers |-> << <<>> >>, err |-> NoError,
     calls |-> <<>>, writes |-> <<>>, stored |-> <<>>, returned |-> <<>>]

Fail(rs, kind) == [rs EXCEPT !.err = kind]

\* rc.write: append to the active writer
Write(rs, s) ==
    [rs EXCEPT !.writers[Len(rs.writers)] = @ \o s]

\* rc.register_local_helper / rc.unregister_local_helper
RegisterLocalHelper(rs, name, h) ==
    [rs EXCEPT !.local = (name :> h) @@ rs.local]

UnregisterLocalHelper(rs, name) ==
    [rs EXCEPT !.local = [k \in (DOMAIN rs.local) \ {name} |-> rs.local[k]]]

\* mutant: the range read as "a or more"
Arity_AtLeast(args, a, b) == Len(args) >= a

\* ctx.arity(a..b): a == b asks for exactly a arguments, else a..=b
Arity(args, a, b) ==
    IF a = b THEN Len(args) = a ELSE Len(args) >= a /\ Len(args) <= b

\* ctx.try_get(0, &[Type::String])
IsStringArg(args) == Len(args) >= 1 /\ args[1].t = "String"

----------------------------------------------------------------------------
\* FluentHelper::call, steps

\* mutant: a `lang` that is no string is reported like a missing one
LangOf_OneKind(d) ==
    IF ~d.present \/ d.lang.t # "String"
    THEN [err |-> "MissingLanguageVariable", id |-> NoLangId]
    ELSE LET p == ParseLang(d.lang.s) IN
         IF p.ok THEN [err |-> NoError, id |-> p.id]
         ELSE [err |-> "InvalidLanguageTag", id |-> NoLangId]

\* `@root.lang`, then as_str, then parse
LangOf(d) ==
    IF ~d.present THEN [err |-> "MissingLanguageVariable", id |-> NoLangId]
    ELSE IF d.lang.t # "String" THEN [err |-> "LanguageNotString", id |-> NoLangId]
    ELSE LET p == ParseLang(d.lang.s) IN
         IF p.ok THEN [err |-> NoError, id |-> p.id]
         ELSE [err |-> "InvalidLanguageTag", id |-> NoLangId]

None == [some |-> FALSE, tbl |-> <<>>]
Some(tbl) == [some |-> TRUE, tbl |-> tbl]

\* mutant: the filter keeps numbers only
KeptKeys_NumbersOnly(hash) == {k \in DOMAIN hash : hash[k].t = "Number"}

\* the filter_map over the hash parameters
KeptKeys(hash) == {k \in DOMAIN hash : hash[k].t \in {"Number", "String"}}

ToFluent(v) ==
    IF v.t = "Number" THEN FluentNumber(AsF64(v)) ELSE FluentString(v.s)

\* Build arguments from hash parameters
BuildArgs(hash) ==
    IF DOMAIN hash = {} THEN None
    ELSE Some([k \in KeptKeys(hash) |-> ToFluent(hash[k])])

\* mutant: an entry already in the table is not overwritten
MergeParams_HashWins(args, map) ==
    Some([k \in (DOMAIN args.tbl) \cup (DOMAIN map) |->
            IF k \in DOMAIN args.tbl THEN args.tbl[k] ELSE FluentString(map[k])])

\* args.get_or_insert(HashMap::new()), then params.insert(k, v) for the block's map
MergeParams(args, map) ==
    Some([k \in (DOMAIN args.tbl) \cup (DOMAIN map) |->
            IF k \in DOMAIN map THEN FluentString(map[k]) ELSE args.tbl[k]])

\* the loader behind lookup_complete: total, a text for every id
LookupComplete(langId, msgId, args) ==
    IF msgId = <<"l", "t">> THEN <<"a", "<", "b">> ELSE msgId

\* mutant: the message is always written raw
WriteMessage_AlwaysRaw(rs, escape, message) ==
    [Write(rs, message) EXCEPT
        !.writes = Append(@, [message |-> message, escaped |-> FALSE, text |-> message])]

\* rc.write_escaped / rc.write of the message
WriteMessage(rs, escape, message) ==
    LET text == IF escape THEN Escape(message) ELSE message IN
    [Write(rs, text) EXCEPT
        !.writes = Append(@, [message |-> message, escaped |-> escape, text |-> text])]

\* mutant: the rendered body is trimmed before it is stored
StoredContent_Trimmed(content) == Strip(content)

\* the text FluentParam stores for a rendered body
StoredContent(content) == content

----------------------------------------------------------------------------
\* The helpers and the host's traversal

RECURSIVE Template(_, _)
RECURSIVE RenderNode(_, _)
RECURSIVE Invoke(_, _)
RECURSIVE Buffer(_, _)
RECURSIVE FluentParamCall(_, _, _)
RECURSIVE FluentHelperCall(_, _)
RECURSIVE FluentBlock(_, _, _, _)
RECURSIVE IfCall(_, _)
RECURSIVE HelperMissing(_, _)

\* rc.template(node): render the children in order, stop at the first error
Template(nodes, rs) ==
    IF rs.err # NoError \/ nodes = <<>> THEN rs
    ELSE Template(Tail(nodes), RenderNode(Head(nodes), rs))

RenderNode(n, rs) ==
    IF n.type = "Text" THEN Write(rs, n.text) ELSE Invoke(n, rs)

\* rc.buffer(node): render the children into a fresh writer; the content is the
\* last writer of the result when there is no error
Buffer(nodes, rs) ==
    Template(nodes, [rs EXCEPT !.writers = Append(@, <<>>)])

\* FluentParam::call
FluentParamCall(self, n, rs) ==
    IF ~Arity(n.args, 1, 1) THEN Fail(rs, "ArityExact")
    ELSE IF n.type # "Block" THEN Fail(rs, "BlockAssert")
    ELSE IF ~IsStringArg(n.args) THEN Fail(rs, "TypeAssert")
    ELSE LET param_name == n.args[1].s
             r == Buffer(n.body, rs)
         IN IF r.err # NoError THEN r
            ELSE LET content == r.writers[Len(r.writers)]
                     value == StoredContent(content)
                 IN [r EXCEPT
                        !.writers = SubSeq(@, 1, Len(@) - 1),
                        !.maps[self.parameters] = (param_name :> value) @@ @,
                        !.stored = Append(@, [node |-> n, content |-> content, value |-> value,
                                              arc |-> self.parameters])]

\* the `if let Some(node) = template` part of FluentHelper::call
FluentBlock(n, rs, langId, args) ==
    LET arc == Len(rs.maps) + 1
        r0 == RegisterLocalHelper([rs EXCEPT !.maps = Append(@, <<>>)],
                                  FLUENT_PARAM, [parameters |-> arc])
        r1 == Template(n.body, r0)
    IN IF r1.err # NoError
       THEN [r1 EXCEPT !.returned = Append(@, [node |-> n, err |-> r1.err, arc |-> arc])]
       ELSE LET r2 == UnregisterLocalHelper(r1, FLUENT_PARAM)
                map == r2.maps[arc]
            IN [rs |-> r2, args |-> MergeParams(args, map), map |-> map, arc |-> arc]

\* FluentHelper::call
FluentHelperCall(n, rs) ==
    LET failed(kind) ==
            [rs EXCEPT !.err = kind,
                       !.returned = Append(@, [node |-> n, err |-> kind, arc |-> 0])]
    IN
    IF ~Arity(n.args, 1, 1) THEN failed("ArityExact")
    ELSE IF ~IsStringArg(n.args) THEN failed("TypeAssert")
    ELSE LET msg_id == n.args[1].s
             lang == LangOf(data)
         IN IF lang.err # NoError THEN failed(lang.err)
            ELSE LET built == BuildArgs(n.hash)
                     b == IF n.type = "Block" THEN FluentBlock(n, rs, lang.id, built)
                          ELSE [rs |-> rs, args |-> built, map |-> <<>>, arc |-> 0]
                 IN IF n.type = "Block" /\ "err" \in DOMAIN b THEN b
                    ELSE LET message == LookupComplete(lang.id, msg_id, b.args)
                             r3 == [b.rs EXCEPT
                                      !.calls = Append(@, [lang |-> lang.id, id |-> msg_id,
                                                           args |-> b.args, built |-> built,
                                                           map |-> b.map, node |-> n])]
                             r4 == WriteMessage(r3, helper.escape, message)
                         IN [r4 EXCEPT !.returned =
                                Append(@, [node |-> n, err |-> NoError, arc |-> b.arc])]

\* a built-in block helper of the host: {{#if cond}} body {{/if}}
IfCall(n, rs) ==
    IF ~Arity(n.args, 1, 1) THEN Fail(rs, "ArityExact")
    ELSE IF n.args[1].t = "Bool" /\ n.args[1].b THEN Template(n.body, rs)
    ELSE rs

\* a call whose name is that of no helper: the host's choice
HelperMissing(n, rs) ==
    CASE missing = "error" -> Fail(rs, "HelperNotFound")
      [] missing = "render" -> Template(n.body, rs)
      [] OTHER -> rs

\* mutant: a block that is neither fluent nor fluentparam is refused
Invoke_OnlyParams(n, rs) ==
    IF n.name \in DOMAIN rs.local THEN FluentParamCall(rs.local[n.name], n, rs)
    ELSE IF n.name = "fluent" THEN FluentHelperCall(n, rs)
    ELSE Fail(rs, "UnexpectedChildBlock")

\* Render::invoke: local helpers first, then the registry
Invoke(n, rs) ==
    IF n.name \in DOMAIN rs.local THEN FluentParamCall(rs.local[n.name], n, rs)
    ELSE IF n.name = "fluent" THEN FluentHelperCall(n, rs)
    ELSE IF n.name = "if" THEN IfCall(n, rs)
    ELSE HelperMissing(n, rs)

----------------------------------------------------------------------------
\* Inputs: templates and root data, drawn from bounded sets

SeqsUpTo(S, n) == UNION {[1..k -> S] : k \in 0..n}

MsgW == <<"w">>
MsgLt == <<"l", "t">>
KeyX == <<"x">>
KeyY == <<"y">>
KeyZ == <<"z">>
Padded == <<" ", " ", "h", "i", "\n">>

\* 2^53 + 1, the first integer an f64 cannot hold
BigInt == JNumber("PosInt", MantissaHi, 1)

HashValues ==
    {JString(<<"h">>), JNumber("PosInt", 0, 1), BigInt, JNumber("NegInt", MantissaHi, 3),
     JNumber("Float", 0, 2), JBool(TRUE), JNull, JArray, JObject}

HashKeys == <<KeyX, KeyY, KeyZ>>

\* hash arguments under the first k keys, k <= MaxHash
Hashes ==
    UNION {[{HashKeys[i] : i \in 1..k} -> HashValues] : k \in 0..MaxHash}

NoHash == <<>>
HashX == (KeyX :> JString(<<"h">>))

Param(name, body) == Block(FLUENT_PARAM, <<JString(name)>>, NoHash, body)

InnerCalls ==
    {Statement("fluent", <<JString(MsgLt)>>, NoHash),
     Block("fluent", <<JString(MsgW)>>, NoHash, <<>>),
     Block("fluent", <<JString(MsgW)>>, NoHash, <<Param(KeyX, <<TextNode(<<"I">>)>>)>>)}

\* what a fluent block may hold as a direct child
Children ==
    {TextNode(<<"t">>),
     Param(KeyX, <<TextNode(Padded)>>),
     Param(KeyY, <<TextNode(<<"B">>)>>),
     Block(FLUENT_PARAM, <<JNumber("PosInt", 0, 1)>>, NoHash, <<TextNode(<<"B">>)>>),
     Block(FLUENT_PARAM, <<JString(KeyX), JString(KeyY)>>, NoHash, <<>>),
     Block("if", <<JBool(TRUE)>>, NoHash, <<TextNode(<<"<">>)>>),
     Block("if", <<JBool(TRUE)>>, NoHash, <<Param(KeyY, <<TextNode(<<"N">>)>>)>>)}
    \cup {Param(KeyY, <<c>>) : c \in InnerCalls}

EnData == [present |-> TRUE, lang |-> JString(<<"e", "n">>)]

Datas ==
    {[present |-> FALSE, lang |-> JNull],
     [present |-> TRUE, lang |-> JNumber("PosInt", 0, 123)],
     [present |-> TRUE, lang |-> JNull],
     EnData,
     [present |-> TRUE, lang |-> JString(<<"e", "n", "-", "U", "S">>)],
     [present |-> TRUE, lang |-> JString(<<"n", "o", "t", "-", "a", "-", "t", "a", "g", "!", "!">>)]}

MissingPolicies == {"ignore", "render", "error"}

\* fluent blocks over every sequence of children
BlockScenarios ==
    {[tpl |-> <<Block("fluent", <<JString(id)>>, h, body)>>, data |-> EnData, missing |-> m] :
        id \in {MsgW, MsgLt}, h \in {NoHash, HashX},
        body \in SeqsUpTo(Children, MaxChildren), m \in MissingPolicies}

\* every hash, on a statement and on a block with one parameter
HashScenarios ==
    {[tpl |-> <<n>>, data |-> EnData, missing |-> "ignore"] :
        n \in {Statement("fluent", <<JString(MsgW)>>, h) : h \in Hashes}
              \cup {Block("fluent", <<JString(MsgW)>>, h, <<Param(KeyX, <<TextNode(<<"B">>)>>)>>) :
                        h \in Hashes}}

ArgValues == {JString(MsgW), JString(MsgLt), JNumber("PosInt", 0, 1)}

\* every argument list under every root data, on a statement and on a block
ArgScenarios ==
    {[tpl |-> <<n>>, data |-> d, missing |-> "ignore"] :
        d \in Datas,
        n \in {Statement("fluent", a, NoHash) : a \in SeqsUpTo(ArgValues, MaxArgs)}
              \cup {Block("fluent", a, HashX, <<Param(KeyY, <<TextNode(<<"B">>)>>)>>) :
                        a \in SeqsUpTo(ArgValues, MaxArgs)}}

Scenarios == BlockScenarios \cup HashScenarios \cup ArgScenarios

----------------------------------------------------------------------------
\* The state machine

\* FluentHelper::new
FluentHelperNew == [escape |-> TRUE]

Init ==
    /\ helper = FluentHelperNew
    /\ trim \in BOOLEAN
    /\ \E s \in Scenarios : tpl = s.tpl /\ data = s.data /\ missing = s.missing
    /\ pc = "new"
    /\ rc = NewRender

\* `pub escape: bool`: the owner sets the field before registering the helper
SetEscape(b) ==
    /\ pc = "new"
    /\ helper' = [helper EXCEPT !.escape = b]
    /\ pc' = "configured"
    /\ UNCHANGED <<trim, data, missing, tpl, rc>>

\* registry.render(name, &data): a fresh Render renders the template
RenderTemplate ==
    /\ pc \in {"new", "configured"}
    /\ rc' = Template(tpl, NewRender)
    /\ pc' = "done"
    /\ UNCHANGED <<helper, trim, data, missing, tpl>>

Next ==
    \/ \E b \in BOOLEAN : SetEscape(b)
    \/ RenderTemplate

Spec == Init /\ [][Next]_vars

----------------------------------------------------------------------------
\* Vocabulary of the properties

Done == pc = "done"
Root == tpl[1]
SeqRange(q) == {q[i] : i \in 1..Len(q)}
Calls == SeqRange(rc.calls)
Returned == SeqRange(rc.returned)
Output == rc.writers[1]

IsParam(n) == n.type = "Block" /\ n.name = FLUENT_PARAM
WellFormedParam(n) == IsParam(n) /\ Len(n.args) = 1 /\ n.args[1].t = "String"
TextOnly(body) == \A i \in 1..Len(body) : body[i].type = "Text"
BodyText(body) == Concat([i \in 1..Len(body) |-> body[i].text])

RECURSIVE HoldsParam(_)
HoldsParam(body) ==
    \E i \in 1..Len(body) : IsParam(body[i]) \/ HoldsParam(body[i].body)

\* the names of the fluentparam blocks in the dynamic scope of a fluent block: its
\* own, those under its other blocks, none of a nested fluent call
RECURSIVE ScopedNames(_)
ScopedNames(body) ==
    UNION {IF body[i].name = "fluent" THEN {}
           ELSE (IF WellFormedParam(body[i]) THEN {body[i].args[1].s} ELSE {})
                    \cup ScopedNames(body[i].body) : i \in 1..Len(body)}

\* the direct fluentparam children of n that are well formed, have a plain-text body
\* and are followed by no fluentparam of the same name
PlainParams(n) ==
    {i \in 1..Len(n.body) :
        /\ WellFormedParam(n.body[i]) /\ TextOnly(n.body[i].body)
        /\ n.body[i].args[1].s \notin ScopedNames(SubSeq(n.body, i + 1, Len(n.body)))}

GoodPositional(n) == Len(n.args) = 1 /\ n.args[1].t = "String"
ValidLang == data.present /\ data.lang.t = "String" /\ ParseLang(data.lang.s).ok

----------------------------------------------------------------------------
\* C1: a call with a valid lang, no hash arguments and no block-supplied parameter
\* (no block, or a block that holds no fluentparam) reaches the backend with
\* args = None, never with Some(empty table).
C1_NoArgumentsIsNone ==
    \A c \in Calls :
        (DOMAIN c.node.hash = {} /\ ~HoldsParam(c.node.body)) => c.args = None

C3_SameKeyAndValue ==
    \A c \in Calls :
        DOMAIN c.node.hash # {} =>
            /\ c.built.some
            /\ DOMAIN c.built.tbl = {k \in DOMAIN c.node.hash :
                                        c.node.hash[k].t \in {"Number", "String"}}
            /\ \A k \in DOMAIN c.built.tbl :
                  LET v == c.node.hash[k] w == c.built.tbl[k] IN
                  IF v.t = "String" THEN w = [t |-> "String", s |-> v.s]
                  ELSE w.t = "Number" /\ FValueOf(w) = JValueOf(v)

\* whether an f64 holds the integer hi * 2^27 + lo exactly (below 2^54)
Representable(hi, lo) == hi < 2 ^ 26 \/ lo % 2 = 0

\* C3 amended: as C3, but a number is stored as the nearest 64-bit float: the same
\* value when an f64 holds it exactly, else the even neighbour one away.
C3_NearestFloat ==
    /\ \A c \in Calls :
        DOMAIN c.node.hash # {} =>
            /\ c.built.some
            /\ DOMAIN c.built.tbl = {k \in DOMAIN c.node.hash :
                                        c.node.hash[k].t \in {"Number", "String"}}
            /\ \A k \in DOMAIN c.built.tbl :
                  LET v == c.node.hash[k] w == c.built.tbl[k] IN
                  IF v.t = "String" THEN w = [t |-> "String", s |-> v.s]
                  ELSE /\ w.t = "Number" /\ w.neg = (v.kind = "NegInt")
                       /\ IF v.kind = "Float" \/ Representable(v.hi, v.lo)
                          THEN FValueOf(w) = JValueOf(v)
                          ELSE /\ Representable(w.hi, w.lo)
                               /\ \/ w.hi = v.hi /\ w.lo - v.lo \in {-1, 1}
                                  \/ w.hi = v.hi + 1 /\ w.lo = 0 /\ v.lo + 1 = 2 ^ 27
    /\ (Done /\ Root.type = "Statement" /\ Root.name = "fluent"
             /\ GoodPositional(Root) /\ ValidLang)
          => rc.err = NoError /\ Len(rc.calls) = 1

C3_Witness ==
    /\ Done
    /\ \E c \in Calls :
          /\ DOMAIN c.node.hash = {KeyX, KeyY}
          /\ c.node.hash[KeyX] = BigInt /\ c.node.hash[KeyY].t = "Bool"
          /\ DOMAIN c.built.tbl = {KeyX}
          /\ c.built.tbl[KeyX] = [t |-> "Number", neg |-> FALSE, hi |-> 2 ^ 26, lo |-> 0]

\* C4: a call that passes the positional checks fails with MissingLanguageVariable
\* when `lang` is absent, LanguageNotString when it is no string, InvalidLanguageTag
\* when it does not parse; whenever `lang` is not a valid tag the backend is not
\* called and no message is written.
C4_LanguageErrors ==
    (Done /\ Root.name = "fluent") =>
        /\ GoodPositional(Root) =>
              /\ ~data.present => rc.err = "MissingLanguageVariable"
              /\ (data.present /\ data.lang.t # "String") => rc.err = "LanguageNotString"
              /\ (data.present /\ data.lang.t = "String" /\ ~ParseLang(data.lang.s).ok)
                    => rc.err = "InvalidLanguageTag"
        /\ ~ValidLang => rc.err # NoError /\ rc.calls = <<>> /\ rc.writes = <<>>
                         /\ Output = <<>>

C4_Witness ==
    /\ Done /\ GoodPositional(Root) /\ Root.type = "Block"
    /\ data.present /\ data.lang.t = "String"
    /\ rc.err = "InvalidLanguageTag" /\ rc.calls = <<>>

\* C5: a helper fresh from FluentHelper::new has escape = true; every successful call
\* writes its resolved message exactly once, escaped (`<` as `&lt;`) when escape is
\* true and verbatim when it is false.
C5_EscapedOrRaw ==
    /\ pc = "new" => helper.escape = TRUE
    /\ Len(rc.writes) = Len(rc.calls)
    /\ Cardinality({i \in 1..Len(rc.returned) : rc.returned[i].err = NoError})
          = Len(rc.writes)
    /\ \A i \in 1..Len(rc.writes) :
          /\ rc.writes[i].message = rc.calls[i].id
                \/ (rc.calls[i].id = MsgLt /\ rc.writes[i].message = <<"a", "<", "b">>)
          /\ rc.writes[i].text =
                IF rc.writes[i].message = <<"a", "<", "b">> /\ helper.escape
                THEN <<"a", "&", "l", "t", ";", "b">>
                ELSE rc.writes[i].message
    /\ (Done /\ Root.type = "Statement" /\ rc.err = NoError) =>
          Output = rc.writes[1].text

C5_Witness ==
    /\ Done /\ helper.escape /\ Root.type = "Statement"
    /\ Output = <<"a", "&", "l", "t", ";", "b">>

\* C6 as stated: zero positional arguments fail with an arity error; a string id
\* followed by any number of further arguments succeeds like the id alone.
C6_OneOrMore ==
    (Done /\ Root.name = "fluent" /\ Root.type = "Statement" /\ ValidLang) =>
        /\ Len(Root.args) = 0 => rc.err = "ArityExact"
        /\ (Len(Root.args) >= 1 /\ Root.args[1].t = "String") =>
              /\ rc.err = NoError
              /\ Len(rc.calls) = 1 /\ rc.calls[1].id = Root.args[1].s

\* C6 amended: the helper takes exactly one positional argument: zero arguments and
\* two or more arguments both fail with the arity error and the backend is not
\* called; one string argument succeeds and is the id of the lookup.
C6_ExactlyOne ==
    (Done /\ Root.name = "fluent" /\ ValidLang) =>
        /\ Len(Root.args) # 1 => rc.err = "ArityExact" /\ rc.calls = <<>>
        /\ (GoodPositional(Root) /\ Root.type = "Statement") =>
              /\ rc.err = NoError
              /\ Len(rc.calls) = 1 /\ rc.calls[1].id = Root.args[1].s

C6_Witness ==
    /\ Done /\ ValidLang /\ Len(Root.args) = 2 /\ Root.args[1].t = "String"
    /\ rc.err = "ArityExact" /\ rc.calls = <<>>

\* what a fluent block writes to the output before its message when its children are
\* text, {{#if true}} blocks of text and plain parameters
RECURSIVE BodyOutput(_)
BodyOutput(body) ==
    IF body = <<>> THEN <<>>
    ELSE LET n == Head(body) IN
         (CASE n.type = "Text" -> n.text
            [] n.name = "if" -> BodyText(n.body)
            [] OTHER -> <<>>) \o BodyOutput(Tail(body))

IsIfOfText(n) ==
    n.type = "Block" /\ n.name = "if" /\ n.args = <<JBool(TRUE)>> /\ TextOnly(n.body)

SimpleChild(n) ==
    n.type = "Text" \/ IsIfOfText(n) \/ (WellFormedParam(n) /\ TextOnly(n.body))

HasOtherBlock(n) ==
    \E i \in 1..Len(n.body) : n.body[i].type = "Block" /\ n.body[i].name # FLUENT_PARAM

\* C7 as stated: a fluent call whose block has a direct child block of another name
\* than fluentparam fails with UnexpectedChildBlock and the backend is not called.
C7_UnexpectedChildBlock ==
    \A r \in Returned :
        (r.node.type = "Block" /\ HasOtherBlock(r.node)) =>
            /\ r.err = "UnexpectedChildBlock"
            /\ \A c \in Calls : c.node # r.node

\* C7 amended: a direct child block of another name is rendered by its own helper
\* into the output; the fluent call does not fail for it and calls the backend.
C7_OtherBlockRendered ==
    (/\ Done /\ Root.type = "Block" /\ Root.name = "fluent"
     /\ GoodPositional(Root) /\ ValidLang
     /\ \A i \in 1..Len(Root.body) : SimpleChild(Root.body[i])
     /\ HasOtherBlock(Root))
    => /\ rc.err = NoError
       /\ Len(rc.calls) = 1 /\ rc.calls[1].node = Root
       /\ Output = BodyOutput(Root.body) \o rc.writes[1].text

C7_Witness ==
    /\ Done /\ Root.type = "Block" /\ Root.name = "fluent" /\ HasOtherBlock(Root)
    /\ Len(Root.body) = 2 /\ IsIfOfText(Root.body[1]) /\ WellFormedParam(Root.body[2])
    /\ rc.err = NoError /\ Len(rc.calls) = 1
    /\ Output = <<"<", "w">>

\* C8 as stated: the value stored for a fluentparam block is its rendered body,
\* stripped of leading and trailing whitespace when trim is enabled and unchanged
\* when trim is disabled.
C8_TrimOption ==
    \A i \in 1..Len(rc.stored) :
        LET st == rc.stored[i] IN
        TextOnly(st.node.body) =>
            st.value = IF trim THEN Strip(BodyText(st.node.body))
                       ELSE BodyText(st.node.body)

\* C8 amended: the value stored for a fluentparam block is its rendered body
\* unchanged, whitespace included, whatever the trim option asks for: the helper
\* has no trim option.
C8_BodyUnchanged ==
    \A i \in 1..Len(rc.stored) :
        LET st == rc.stored[i] IN
        /\ st.value = st.content
        /\ TextOnly(st.node.body) => st.value = BodyText(st.node.body)
        /\ rc.maps[st.arc][st.node.args[1].s] = st.value
              \/ \E j \in (i + 1)..Len(rc.stored) :
                    rc.stored[j].arc = st.arc /\ rc.stored[j].node.args = st.node.args

C8_Witness ==
    /\ Done /\ trim
    /\ \E i \in 1..Len(rc.stored) :
          /\ rc.stored[i].node.body = <<TextNode(Padded)>>
          /\ rc.stored[i].value = <<" ", " ", "h", "i", "\n">>
          /\ Strip(rc.stored[i].value) = <<"h", "i">>
          /\ rc.maps[rc.stored[i].arc][KeyX] = <<" ", " ", "h", "i", "\n">>

\* C9: after a fluent call has returned, with success or with an error (also one
\* raised while its block was rendered), the fluentparam local helper that call
\* registered is no longer registered in the render state.
C9_LocalHelperTransient ==
    \A r \in Returned :
        r.arc # 0 =>
            ~(FLUENT_PARAM \in DOMAIN rc.local
                /\ rc.local[FLUENT_PARAM].parameters = r.arc)

\* a template of text, well-formed fluent calls and well-formed fluentparam blocks
RECURSIVE OnlyFluentCalls(_)
OnlyFluentCalls(body) ==
    \A i \in 1..Len(body) :
        \/ body[i].type = "Text"
        \/ /\ WellFormedParam(body[i]) \/ (body[i].name = "fluent" /\ GoodPositional(body[i]))
           /\ OnlyFluentCalls(body[i].body)

\* C10: every fluentparam that is a direct child of a fluent block puts its name and
\* rendered text in the table of that call, whatever calls are nested in earlier
\* siblings, and no parameter of another call lands in the table; a template of
\* well-formed fluent and fluentparam calls renders without error.
C10_DirectChildrenReachTable ==
    /\ \A c \in Calls :
          c.node.type = "Block" =>
              /\ \A i \in PlainParams(c.node) :
                    LET name == c.node.body[i].args[1].s IN
                    /\ name \in DOMAIN c.args.tbl
                    /\ c.args.tbl[name] = FluentString(BodyText(c.node.body[i].body))
              /\ DOMAIN c.map \subseteq ScopedNames(c.node.body)
    /\ (Done /\ ValidLang /\ Root.name = "fluent" /\ OnlyFluentCalls(tpl))
          => rc.err = NoError

====
